---- MODULE Spec2Model ----
(***************************************************************************)
(* Model of app/train.py of housing-prices-ml: the training script         *)
(* (load_data, preprocess_data, create_pipeline, train_model, log_model    *)
(* and the __main__ block that runs them).                                 *)
(*                                                                         *)
(* The database, scikit-learn and MLflow are outside the repository.  A    *)
(* call into them is one step whose outcome (a result or a raised          *)
(* exception) is chosen nondeterministically, except where the outcome is  *)
(* a function of the arguments (the sizes train_test_split computes, the   *)
(* too-few-rows failures).  mlflow.sklearn.autolog, mlflow.start_run and   *)
(* the run's __exit__ are taken to return normally: the script has no      *)
(* handler around them.                                                    *)
(***************************************************************************)
EXTENDS Integers, Sequences, FiniteSets, TLC

\* ---------------------------------------------------------------- bounds

\* Largest number of rows the housing_prices table holds in Spec.
MaxRows == 4

\* Largest n_samples the split-size walk (SplitSpec) is run on.
MaxSamples == 60

\* ------------------------------------------------------------- constants

\* train_model's default number of folds, cv: int = 3.
DefaultCV == 3

\* Binary exponent of test_size=0.2 as a double: 0.2 = 1.6 * 2^-3.
TestSizeExponent == -3

\* test_size=0.2 as an IEEE-754 double, significand 0x1999999999999A,
\* least significant bit first.
TestSizeBits ==
    [i \in 1..53 |->
        IF i = 53 THEN 1
        ELSE IF i <= 4 THEN <<0, 1, 0, 1>>[i]
        ELSE <<1, 0, 0, 1>>[((i - 5) % 4) + 1]]

\* The position of the binary point: bit i of a product weighs 2^(i-1-Scale).
TestSizeScale == Len(TestSizeBits) - 1 - TestSizeExponent

target_variable == "price"

\* The names set_axis gives the feature columns, by position.
FeatureNames ==
    <<"square_feet", "num_bedrooms", "num_bathrooms", "num_floors",
      "year_built", "has_garden", "has_pool", "garage_size",
      "location_score", "distance_to_center">>

\* param_grid["lasso__alpha"] == list(range(100, 1000, 25))
param_grid == {a \in 100..999 : (a - 100) % 25 = 0}

artifact_path_main == "housing-prices-estimator"

registered_model_name_main == "housing-prices-estimator-LR"

\* ------------------------------------------------- double arithmetic

RECURSIVE CarryBits(_)
CarryBits(c) == IF c = 0 THEN <<>> ELSE <<c % 2>> \o CarryBits(c \div 2)

RECURSIVE MulFrom(_, _, _, _)
MulFrom(bits, n, i, carry) ==
    IF i > Len(bits) THEN CarryBits(carry)
    ELSE LET acc == n * bits[i] + carry
         IN  <<acc % 2>> \o MulFrom(bits, n, i + 1, acc \div 2)

\* The exact product of a significand and a small integer, as bits.
MulBits(bits, n) == MulFrom(bits, n, 1, 0)

TopBit(bits) ==
    LET ones == {i \in 1..Len(bits) : bits[i] = 1}
    IN  IF ones = {} THEN 0 ELSE CHOOSE i \in ones : \A j \in ones : j <= i

RECURSIVE AddOneAt(_, _)
AddOneAt(bits, i) ==
    IF i > Len(bits) THEN bits \o <<1>>
    ELSE IF bits[i] = 0 THEN [bits EXCEPT ![i] = 1]
    ELSE AddOneAt([bits EXCEPT ![i] = 0], i + 1)

\* Round to a double's 53 significant bits, ties to even.
RoundDouble(bits) ==
    LET t == TopBit(bits)
        d == t - Len(TestSizeBits)
    IN  IF d <= 0 THEN bits
        ELSE LET guard  == bits[d] = 1
                 sticky == \E i \in 1..(d - 1) : bits[i] = 1
                 odd    == bits[d + 1] = 1
                 kept   == [i \in 1..Len(bits) |-> IF i <= d THEN 0 ELSE bits[i]]
             IN  IF guard /\ (sticky \/ odd) THEN AddOneAt(kept, d + 1) ELSE kept

RECURSIVE IntPart(_, _)
IntPart(bits, i) ==
    IF i > Len(bits) THEN 0 ELSE bits[i] + 2 * IntPart(bits, i + 1)

HasFraction(bits) ==
    \E i \in 1..Len(bits) : i <= TestSizeScale /\ bits[i] = 1

Floor(bits) == IntPart(bits, TestSizeScale + 1)

Ceil(bits) == Floor(bits) + (IF HasFraction(bits) THEN 1 ELSE 0)

\* test_size * n_samples, in double precision.
TestSizeTimes(n_samples) == RoundDouble(MulBits(TestSizeBits, n_samples))

\* ---------------------------------------------------- sklearn's split sizes

\* Faulty variant: the test size rounded down instead of up.
NTest_Floor(n_samples) == Floor(TestSizeTimes(n_samples))

\* n_test = ceil(test_size * n_samples)   (_validate_shuffle_split)
NTest(n_samples) == Ceil(TestSizeTimes(n_samples))

\* train_size is None: n_train = n_samples - n_test
NTrain(n_samples) == n_samples - NTest(n_samples)

\* "the resulting train set will be empty": train_test_split raises ValueError
SplitRaises(n_samples) == NTrain(n_samples) = 0

\* ------------------------------------------------------------ data model

NoneType == "None"

NoExc == [type |-> NoneType, site |-> NoneType, cause |-> NoneType]

Raise(type, site, cause) == [type |-> type, site |-> site, cause |-> cause]

Unset == [set |-> FALSE]

\* A frame is a view of the table: its column labels, the table column each
\* label stands for (origin), and its row labels (the id index) in order.
Frame(columns, origin, index) ==
    [set |-> TRUE, columns |-> columns, origin |-> origin, index |-> index]

SourceColumns ==
    <<"c1", "c2", "c3", "c4", "c5", "c6", "c7", "c8", "c9", "c10", "c11">>

InsertAt(s, p, x) == SubSeq(s, 1, p - 1) \o <<x>> \o SubSeq(s, p, Len(s))

Iota(n) == [i \in 1..n |-> i]

\* The column lists a housing_prices table may have: the expected number of
\* feature columns, one fewer or one more, with price first, last or absent.
ColumnLists ==
    LET others == {SubSeq(SourceColumns, 1, k) :
                     k \in (Len(FeatureNames) - 1)..(Len(FeatureNames) + 1)}
    IN  others
        \cup {InsertAt(c, 1, target_variable) : c \in others}
        \cup {InsertAt(c, Len(c) + 1, target_variable) : c \in others}

\* What pd.read_sql(..., index_col="id") may return.
Datasets ==
    {Frame(c, Iota(Len(c)), Iota(n)) : c \in ColumnLists, n \in 0..MaxRows}

RECURSIVE PermsOf(_)
PermsOf(S) ==
    IF S = {} THEN {<<>>}
    ELSE UNION {{<<x>> \o p : p \in PermsOf(S \ {x})} : x \in S}

HasColumn(df, name) == \E i \in 1..Len(df.columns) : df.columns[i] = name

\* df restricted to the columns at positions pos, in that order.
Select(df, pos) ==
    Frame([k \in 1..Len(pos) |-> df.columns[pos[k]]],
          [k \in 1..Len(pos) |-> df.origin[pos[k]]],
          df.index)

\* dataset.drop([name], axis=1)
Drop(df, name) ==
    Select(df, SelectSeq(Iota(Len(df.columns)), LAMBDA i : df.columns[i] # name))

\* dataset[name]
Column(df, name) ==
    Select(df, SelectSeq(Iota(Len(df.columns)), LAMBDA i : df.columns[i] = name))

\* X.set_axis(labels, axis=1) raises ValueError on a length mismatch.
SetAxisRaises(df, labels) == Len(df.columns) # Len(labels)

SetAxis(df, labels) == Frame(labels, df.origin, df.index)

\* df.iloc[rows]
Take(df, rows) ==
    Frame(df.columns, df.origin, [k \in 1..Len(rows) |-> df.index[rows[k]]])

\* ShuffleSplit: ind_test = permutation[:n_test],
\*               ind_train = permutation[n_test:n_test + n_train]
TestRows(perm, n_samples) == SubSeq(perm, 1, NTest(n_samples))

TrainRows(perm, n_samples) ==
    SubSeq(perm, NTest(n_samples) + 1, NTest(n_samples) + NTrain(n_samples))

\* Faulty variant: y split in table order, without the permutation X was split by.
TargetTrainRows_Unshuffled(perm, n_samples) ==
    SubSeq(Iota(n_samples), NTest(n_samples) + 1, n_samples)

\* The rows train_test_split takes from the second array, y.
TargetTrainRows(perm, n_samples) == TrainRows(perm, n_samples)

TargetTestRows(perm, n_samples) == TestRows(perm, n_samples)

\* train_test_split(X, y, test_size=0.2, random_state=3); perm is the
\* permutation the seeded generator draws for n_samples rows.
train_test_split(X, y, perm) ==
    LET n == Len(X.index)
    IN  IF SplitRaises(n)
        THEN [exc |-> Raise("ValueError", "train_test_split", NoneType),
              X_train |-> Unset, X_test |-> Unset,
              y_train |-> Unset, y_test |-> Unset]
        ELSE [exc |-> NoExc,
              X_train |-> Take(X, TrainRows(perm, n)),
              X_test  |-> Take(X, TestRows(perm, n)),
              y_train |-> Take(y, TargetTrainRows(perm, n)),
              y_test  |-> Take(y, TargetTestRows(perm, n))]

Failed(exc) ==
    [exc |-> exc, X_train |-> Unset, X_test |-> Unset,
     y_train |-> Unset, y_test |-> Unset]

\* Faulty variant: the guard only notices a table without columns.
TargetMissing_EmptyOnly(df) == df.columns = <<>>

\* if target_variable not in dataset.columns
TargetMissing(df) == ~HasColumn(df, target_variable)

preprocess_data(df, perm) ==
    IF TargetMissing(df)
    THEN Failed(Raise("ValueError", "target_not_found", NoneType))
    ELSE LET X == Drop(df, target_variable)
         IN  IF SetAxisRaises(X, FeatureNames)
             THEN Failed(Raise("ValueError", "set_axis", "ValueError"))
             ELSE train_test_split(SetAxis(X, FeatureNames),
                                   Column(df, target_variable), perm)

create_pipeline == <<"standard_scaler", "lasso">>

\* ------------------------------------------------------- train_model

Dict(items) == [py |-> "dict", items |-> items]

\* isinstance(param_grid, dict)
IsDict(v) == v.py = "dict"

param_grid_main == Dict(param_grid)

\* GridSearchCV(cv=3).fit cannot make 3 folds of fewer than 3 rows.
FitMustRaise(X, cv) == Len(X.index) < cv

Fitted(estimator, X, alpha) ==
    [set |-> TRUE, estimator |-> estimator, fitted_on |-> X.index,
     best_alpha |-> alpha]

\* model = GridSearchCV(pipeline, param_grid, cv=cv, scoring="r2"), not fitted
Unfitted(estimator) == [set |-> FALSE, estimator |-> estimator]

\* Faulty variant: the handler swallows the failure and the unfitted model is returned.
TrainExcept_Swallow(e) == NoExc

\* except Exception as e: raise RuntimeError(f"Model training failed: {e}")
TrainExcept(e) == Raise("RuntimeError", "train_model", NoneType)

\* The exception classes that appear below; each derives from Exception.
ExceptionTypes ==
    {"ValueError", "RuntimeError", "ArgumentError", "OperationalError",
     "ProgrammingError", "KeyError", "NotFittedError", "TypeError",
     "ConnectionError", "MlflowException"}

\* ---------------------------------------------------------- load_data

\* if not db_uri
Falsy(s) == s = NoneType \/ s = ""

DbUris == {NoneType, "", "postgresql://db/housing", "not-a-url"}

\* create_engine cannot parse the URL (sqlalchemy.exc.ArgumentError).
CreateEngineRaises(uri) == uri = "not-a-url"

\* Faulty variant: the original exception is let through, not wrapped.
LoadExcept_Reraise(e) == e

\* except Exception as e: raise RuntimeError(...) from e
LoadExcept(e) == Raise("RuntimeError", "load_data", e.type)

\* Faulty variant: dispose placed after the try statement, so only a return reaches it.
FinallyDisposes_OnReturnOnly(pending) == ~pending

\* finally: engine.dispose() runs whether or not an exception is pending.
FinallyDisposes(pending) == TRUE

\* try: engine.dispose() / except Exception: pass
AfterDispose(pending, dispose_raised) == pending

\* ---------------------------------------------------------- log_model

\* Faulty variant: only the MlflowException handler.
LogModelCatches_MlflowOnly(type) == type = "MlflowException"

\* Faulty variant: no handler at all.
LogModelCatches_Nothing(type) == FALSE

\* The handlers of log_model's try: MlflowException, then Exception.
LogModelCatches(type) == type = "MlflowException" \/ type \in ExceptionTypes

Warning(type) ==
    IF type = "MlflowException" THEN "Model logging failed"
    ELSE "Unexpected error during model logging"

\* Faulty variant: the two names passed in each other's place.
RegisterCall_Swapped(sk_model, X, path, name) ==
    [sk_model |-> sk_model, artifact_path |-> name,
     registered_model_name |-> path, signature |-> X.columns]

\* The keyword arguments of mlflow.sklearn.log_model.
RegisterCall(sk_model, X, path, name) ==
    [sk_model |-> sk_model, artifact_path |-> path,
     registered_model_name |-> name, signature |-> X.columns]

\* What may go wrong inside the try, and the type raised.
LogOutcomes(sk_model) ==
    {[at |-> "predict",
      type |-> IF sk_model.set THEN "ValueError" ELSE "NotFittedError"]}
    \cup (IF sk_model.set
          THEN {[at |-> NoneType, type |-> NoneType],
                [at |-> "infer_signature", type |-> "MlflowException"],
                [at |-> "infer_signature", type |-> "TypeError"],
                [at |-> "mlflow.sklearn.log_model", type |-> "MlflowException"],
                [at |-> "mlflow.sklearn.log_model", type |-> "ConnectionError"]}
          ELSE {})

\* ------------------------------------------------------------ the run

\* Faulty variant: end_run called after the block instead of by the with statement.
RunAfterExit_OpenOnError(pending) == IF pending THEN "open" ELSE "closed"

\* with mlflow.start_run(): the run is ended however the block is left.
RunAfterExit(pending) == "closed"

\* -------------------------------------------------------------- state

VARIABLES
    pc,                     \* where the script is
    db_uri,                 \* os.getenv("DB_URI")
    engine,                 \* "none", "live", "disposed", "dispose_failed"
    conn,                   \* "none", "open", "closed"
    dataset,                \* load_data's result
    X_train, X_test, y_train, y_test,
    pipeline,
    run,                    \* the MLflow run: "none", "open", "closed"
    model,                  \* train_model's result
    artifact_path, registered_model_name,   \* log_model's arguments
    registered,             \* the calls mlflow.sklearn.log_model received
    out,                    \* what the script printed
    stderr,                 \* the traceback of an uncaught exception
    exc,                    \* the exception being raised, or NoExc
    exit_code,              \* "none" while running, then "0" or "1"
    trace,                  \* the calls made so far, in order
    vss                     \* the split-size walk of SplitSpec

vars ==
    <<pc, db_uri, engine, conn, dataset, X_train, X_test, y_train, y_test,
      pipeline, run, model, artifact_path, registered_model_name, registered,
      out, stderr, exc, exit_code, trace, vss>>

\* A call, the exception it raised (or "None"), and the run's state then.
Event(op, raised) == [op |-> op, raised |-> raised, run |-> run]

Called(op) == \E i \in 1..Len(trace) : trace[i].op = op

Pending == exc # NoExc

VssIdle == [pc |-> "idle", n_samples |-> 0, raised |-> FALSE,
            test |-> <<>>, train |-> <<>>]

Init ==
    /\ pc = "main"
    /\ db_uri \in DbUris
    /\ engine = "none"
    /\ conn = "none"
    /\ dataset = Unset
    /\ X_train = Unset /\ X_test = Unset /\ y_train = Unset /\ y_test = Unset
    /\ pipeline = <<>>
    /\ run = "none"
    /\ model = Unset
    /\ artifact_path = artifact_path_main
    /\ registered_model_name = registered_model_name_main
    /\ registered = <<>>
    /\ out = <<>>
    /\ stderr = <<>>
    /\ exc = NoExc
    /\ exit_code = "none"
    /\ trace = <<>>
    /\ vss = VssIdle

\* ----------------------------------------------------------- __main__

\* print("Training model..."); mlflow.sklearn.autolog(log_models=False)
Main ==
    /\ pc = "main"
    /\ out' = Append(out, "Training model...")
    /\ trace' = Append(trace, Event("autolog", NoneType))
    /\ pc' = "load_data"
    /\ UNCHANGED <<db_uri, engine, conn, dataset, X_train, X_test, y_train,
                   y_test, pipeline, run, model, artifact_path,
                   registered_model_name, registered, stderr, exc, exit_code,
                   vss>>

\* load_data: db_uri = os.getenv("DB_URI"); if not db_uri: raise ValueError
GetEnv ==
    /\ pc = "load_data"
    /\ IF Falsy(db_uri)
       THEN /\ exc' = Raise("ValueError", "DB_URI", NoneType)
            /\ pc' = "uncaught"
       ELSE /\ exc' = exc
            /\ pc' = "create_engine"
    /\ trace' = trace \o <<Event("load_data", NoneType),
                            Event("os.getenv", NoneType)>>
    /\ UNCHANGED <<db_uri, engine, conn, dataset, X_train, X_test, y_train,
                   y_test, pipeline, run, model, artifact_path,
                   registered_model_name, registered, out, stderr, exit_code,
                   vss>>

\* engine = create_engine(db_uri, echo=True), before the try
CreateEngine ==
    /\ pc = "create_engine"
    /\ trace' = Append(trace, Event("create_engine",
                                     IF CreateEngineRaises(db_uri)
                                     THEN "ArgumentError" ELSE NoneType))
    /\ IF CreateEngineRaises(db_uri)
       THEN /\ exc' = Raise("ArgumentError", "create_engine", NoneType)
            /\ engine' = engine
            /\ pc' = "uncaught"
       ELSE /\ exc' = exc
            /\ engine' = "live"
            /\ pc' = "connect"
    /\ UNCHANGED <<db_uri, conn, dataset, X_train, X_test, y_train, y_test,
                   pipeline, run, model, artifact_path, registered_model_name,
                   registered, out, stderr, exit_code, vss>>

\* with engine.connect() as conn
Connect ==
    /\ pc = "connect"
    /\ \/ /\ conn' = "open"
          /\ trace' = Append(trace, Event("engine.connect", NoneType))
          /\ exc' = exc
          /\ pc' = "read_sql"
       \/ /\ conn' = conn
          /\ trace' = Append(trace, Event("engine.connect", "OperationalError"))
          /\ exc' = LoadExcept(Raise("OperationalError", "engine.connect", NoneType))
          /\ pc' = "finally"
    /\ UNCHANGED <<db_uri, engine, dataset, X_train, X_test, y_train, y_test,
                   pipeline, run, model, artifact_path, registered_model_name,
                   registered, out, stderr, exit_code, vss>>

\* df = pd.read_sql("SELECT * FROM housing_prices", conn, index_col="id");
\* the with block closes conn on the way out.
ReadSql ==
    /\ pc = "read_sql"
    /\ conn' = "closed"
    /\ pc' = "finally"
    /\ \/ /\ dataset' \in Datasets
          /\ trace' = Append(trace, Event("read_sql", NoneType))
          /\ exc' = exc
       \/ /\ dataset' = dataset
          /\ \E type \in {"ProgrammingError", "KeyError"} :
                /\ trace' = Append(trace, Event("read_sql", type))
                /\ exc' = LoadExcept(Raise(type, "read_sql", NoneType))
    /\ UNCHANGED <<db_uri, engine, X_train, X_test, y_train, y_test, pipeline,
                   run, model, artifact_path, registered_model_name,
                   registered, out, stderr, exit_code, vss>>

\* finally: try: engine.dispose() except Exception: pass; then return df or
\* let the pending RuntimeError go on.
Finally ==
    /\ pc = "finally"
    /\ IF FinallyDisposes(Pending)
       THEN \E dispose_raised \in BOOLEAN :
                  /\ trace' = Append(trace, Event("engine.dispose",
                                                   IF dispose_raised
                                                   THEN "OperationalError"
                                                   ELSE NoneType))
                  /\ engine' = IF dispose_raised THEN "dispose_failed" ELSE "disposed"
                  /\ exc' = AfterDispose(exc, dispose_raised)
       ELSE /\ trace' = trace
            /\ engine' = engine
            /\ exc' = exc
    /\ pc' = IF exc' # NoExc THEN "uncaught" ELSE "preprocess_data"
    /\ UNCHANGED <<db_uri, conn, dataset, X_train, X_test, y_train, y_test,
                   pipeline, run, model, artifact_path, registered_model_name,
                   registered, out, stderr, exit_code, vss>>

\* X_train, X_test, y_train, y_test = preprocess_data(dataset)
Preprocess ==
    /\ pc = "preprocess_data"
    /\ \E perm \in PermsOf(1..Len(dataset.index)) :
          LET r == preprocess_data(dataset, perm)
          IN  /\ trace' = Append(trace, Event("preprocess_data", r.exc.type))
              /\ exc' = r.exc
              /\ X_train' = r.X_train
              /\ X_test' = r.X_test
              /\ y_train' = r.y_train
              /\ y_test' = r.y_test
              /\ pc' = IF r.exc # NoExc THEN "uncaught" ELSE "create_pipeline"
    /\ UNCHANGED <<db_uri, engine, conn, dataset, pipeline, run, model,
                   artifact_path, registered_model_name, registered, out,
                   stderr, exit_code, vss>>

\* pipeline = create_pipeline()
CreatePipeline ==
    /\ pc = "create_pipeline"
    /\ trace' = Append(trace, Event("create_pipeline", NoneType))
    /\ pipeline' = create_pipeline
    /\ pc' = "start_run"
    /\ UNCHANGED <<db_uri, engine, conn, dataset, X_train, X_test, y_train,
                   y_test, run, model, artifact_path, registered_model_name,
                   registered, out, stderr, exc, exit_code, vss>>

\* with mlflow.start_run() as run:
StartRun ==
    /\ pc = "start_run"
    /\ trace' = Append(trace, Event("start_run", NoneType))
    /\ run' = "open"
    /\ pc' = "train_model"
    /\ UNCHANGED <<db_uri, engine, conn, dataset, X_train, X_test, y_train,
                   y_test, pipeline, model, artifact_path,
                   registered_model_name, registered, out, stderr, exc,
                   exit_code, vss>>

\* model = train_model(pipeline, X_train, y_train, param_grid)
TrainModel ==
    /\ pc = "train_model"
    /\ IF ~IsDict(param_grid_main)
       THEN /\ exc' = Raise("ValueError", "param_grid", NoneType)
            /\ trace' = Append(trace, Event("train_model", NoneType))
            /\ model' = model
       ELSE \/ /\ ~FitMustRaise(X_train, DefaultCV)
               /\ \E alpha \in param_grid_main.items :
                     model' = Fitted(pipeline, X_train, alpha)
               /\ trace' = trace \o <<Event("train_model", NoneType),
                                       Event("fit", NoneType)>>
               /\ exc' = exc
            \/ /\ exc' = TrainExcept(Raise("ValueError", "fit", NoneType))
               /\ trace' = trace \o <<Event("train_model", NoneType),
                                       Event("fit", "ValueError")>>
               /\ model' = IF exc' # NoExc THEN model ELSE Unfitted(pipeline)
    /\ pc' = IF exc' # NoExc THEN "run_exit" ELSE "log_model"
    /\ UNCHANGED <<db_uri, engine, conn, dataset, X_train, X_test, y_train,
                   y_test, pipeline, run, artifact_path, registered_model_name,
                   registered, out, stderr, exit_code, vss>>

LogSteps == <<"predict", "infer_signature", "mlflow.sklearn.log_model">>

\* The calls log_model's try block makes when it stops at `at`.
LogCalls(at) ==
    IF at = NoneType THEN LogSteps
    ELSE SubSeq(LogSteps, 1, CHOOSE i \in 1..Len(LogSteps) : LogSteps[i] = at)

\* The calls of a try block that stops at `at` with `type`: all but the
\* last return normally.
Events(ops, type) ==
    [i \in 1..Len(ops) |-> Event(ops[i], IF i = Len(ops) THEN type ELSE NoneType)]

\* log_model(model, X_train, "housing-prices-estimator",
\*           "housing-prices-estimator-LR")
LogModel ==
    /\ pc = "log_model"
    /\ IF Falsy(artifact_path) \/ Falsy(registered_model_name)
       THEN /\ exc' = Raise("ValueError", "log_model", NoneType)
            /\ trace' = Append(trace, Event("log_model", NoneType))
            /\ registered' = registered
            /\ out' = out
       ELSE \E o \in LogOutcomes(model) :
            /\ trace' = Append(trace, Event("log_model", NoneType))
                            \o Events(LogCalls(o.at), o.type)
            /\ registered' =
                  IF o.at \in {NoneType, "mlflow.sklearn.log_model"}
                  THEN Append(registered,
                              [call |-> RegisterCall(model, X_train, artifact_path,
                                                     registered_model_name),
                               raised |-> o.type, run |-> run])
                  ELSE registered
            /\ IF o.type = NoneType
               THEN /\ out' = out
                    /\ exc' = exc
               ELSE IF LogModelCatches(o.type)
               THEN /\ out' = Append(out, Warning(o.type))
                    /\ exc' = exc
               ELSE /\ out' = out
                    /\ exc' = Raise(o.type, o.at, NoneType)
    /\ pc' = "run_exit"
    /\ UNCHANGED <<db_uri, engine, conn, dataset, X_train, X_test, y_train,
                   y_test, pipeline, run, model, artifact_path,
                   registered_model_name, stderr, exit_code, vss>>

\* The end of the with block: ActiveRun.__exit__ ends the run, and an
\* exception raised inside the block goes on.
RunExit ==
    /\ pc = "run_exit"
    /\ trace' = Append(trace, Event("end_run", NoneType))
    /\ run' = RunAfterExit(Pending)
    /\ pc' = IF Pending THEN "uncaught" ELSE "report"
    /\ UNCHANGED <<db_uri, engine, conn, dataset, X_train, X_test, y_train,
                   y_test, pipeline, model, artifact_path,
                   registered_model_name, registered, out, stderr, exc,
                   exit_code, vss>>

\* print("...Done!"); print(f"---Total training time: {...}")
Report ==
    /\ pc = "report"
    /\ out' = out \o <<"...Done!", "---Total training time">>
    /\ exit_code' = "0"
    /\ pc' = "exit"
    /\ UNCHANGED <<db_uri, engine, conn, dataset, X_train, X_test, y_train,
                   y_test, pipeline, run, model, artifact_path,
                   registered_model_name, registered, stderr, exc, trace, vss>>

\* An exception nothing catches: the interpreter prints the traceback and
\* exits with status 1.
Uncaught ==
    /\ pc = "uncaught"
    /\ stderr' = Append(stderr, exc)
    /\ exit_code' = "1"
    /\ pc' = "exit"
    /\ UNCHANGED <<db_uri, engine, conn, dataset, X_train, X_test, y_train,
                   y_test, pipeline, run, model, artifact_path,
                   registered_model_name, registered, out, exc, trace, vss>>

Next ==
    \/ Main
    \/ GetEnv
    \/ CreateEngine
    \/ Connect
    \/ ReadSql
    \/ Finally
    \/ Preprocess
    \/ CreatePipeline
    \/ StartRun
    \/ TrainModel
    \/ LogModel
    \/ RunExit
    \/ Report
    \/ Uncaught

Spec == Init /\ [][Next]_vars

\* ------------------------------------------- log_model, called on its own

LogFrames == {Frame(FeatureNames, Iota(Len(FeatureNames)), Iota(DefaultCV))}

LogModels ==
    {Unfitted(create_pipeline)}
    \cup {Fitted(create_pipeline, X, alpha) : X \in LogFrames, alpha \in param_grid}

\* log_model about to be called with any model and any two strings.
LogInit ==
    /\ pc = "log_model"
    /\ db_uri = NoneType
    /\ engine = "none"
    /\ conn = "none"
    /\ dataset = Unset
    /\ X_train \in LogFrames
    /\ X_test = Unset /\ y_train = Unset /\ y_test = Unset
    /\ pipeline = create_pipeline
    /\ run \in {"none", "open"}
    /\ model \in LogModels
    /\ artifact_path \in {"", artifact_path_main, "models/lasso"}
    /\ registered_model_name \in {"", registered_model_name_main}
    /\ registered = <<>>
    /\ out = <<>>
    /\ stderr = <<>>
    /\ exc = NoExc
    /\ exit_code = "none"
    /\ trace = <<>>
    /\ vss = VssIdle

LogSpec == LogInit /\ [][LogModel]_vars

\* ------------------------------ train_test_split's sizes, on their own

Reversed(n) == [i \in 1..n |-> n + 1 - i]

\* train_test_split about to be called on arrays of n_samples rows.
SplitInit ==
    /\ pc = "idle"
    /\ db_uri = NoneType
    /\ engine = "none"
    /\ conn = "none"
    /\ dataset = Unset
    /\ X_train = Unset /\ X_test = Unset /\ y_train = Unset /\ y_test = Unset
    /\ pipeline = <<>>
    /\ run = "none"
    /\ model = Unset
    /\ artifact_path = artifact_path_main
    /\ registered_model_name = registered_model_name_main
    /\ registered = <<>>
    /\ out = <<>>
    /\ stderr = <<>>
    /\ exc = NoExc
    /\ exit_code = "none"
    /\ trace = <<>>
    /\ \E n \in 0..MaxSamples :
          vss = [VssIdle EXCEPT !.pc = "train_test_split", !.n_samples = n]

\* The row positions train_test_split hands out, for two of the orders the
\* generator may draw.
SplitRows ==
    /\ vss.pc = "train_test_split"
    /\ \E perm \in {Iota(vss.n_samples), Reversed(vss.n_samples)} :
          vss' = IF SplitRaises(vss.n_samples)
                 THEN [vss EXCEPT !.pc = "done", !.raised = TRUE]
                 ELSE [vss EXCEPT !.pc = "done",
                                  !.test = TestRows(perm, vss.n_samples),
                                  !.train = TrainRows(perm, vss.n_samples)]
    /\ UNCHANGED <<pc, db_uri, engine, conn, dataset, X_train, X_test, y_train,
                   y_test, pipeline, run, model, artifact_path,
                   registered_model_name, registered, out, stderr, exc,
                   exit_code, trace>>

SplitSpec == SplitInit /\ [][SplitRows]_vars

\* ============================================================ properties

StageOrder ==
    <<"load_data", "preprocess_data", "create_pipeline", "train_model",
      "log_model">>

StageNames == {StageOrder[i] : i \in DOMAIN StageOrder}

Ops(events) == [i \in 1..Len(events) |-> events[i].op]

StagesRun == Ops(SelectSeq(trace, LAMBDA e : e.op \in StageNames))

IsPrefix(s, t) == Len(s) <= Len(t) /\ s = SubSeq(t, 1, Len(s))

Count(op) == Cardinality({i \in 1..Len(trace) : trace[i].op = op})

Index(op) == CHOOSE i \in 1..Len(trace) : trace[i].op = op

RaisedIn(op) == \E i \in 1..Len(trace) : trace[i].op = op /\ trace[i].raised # NoneType

RaisedType(op) == trace[Index(op)].raised

InLoadData == pc \in {"load_data", "create_engine", "connect", "read_sql", "finally"}

Printed(line) == \E i \in 1..Len(out) : out[i] = line

Warnings == {"Model logging failed", "Unexpected error during model logging"}

\* ---------------------------------------------------------------- C1

\* C1: once load_data has created the engine, every way out of load_data
\* (return, a failed connect, a failed query) has called engine.dispose(),
\* exactly once; and when dispose itself raised, load_data's outcome is still
\* its own: the dataset on success, the wrapped RuntimeError on failure.
C1_EngineReleased ==
    (engine # "none" /\ ~InLoadData) =>
        /\ engine \in {"disposed", "dispose_failed"}
        /\ Count("engine.dispose") = 1
        /\ (engine = "dispose_failed" /\ ~Called("preprocess_data")) =>
              IF RaisedIn("engine.connect") \/ RaisedIn("read_sql")
              THEN exc.type = "RuntimeError" /\ exc.site = "load_data"
              ELSE exc = NoExc /\ dataset.set

\* A failed query whose engine was disposed of, the dispose call failing too.
C1_Witness ==
    /\ pc = "uncaught"
    /\ engine = "dispose_failed"
    /\ exc.cause = "ProgrammingError"

\* ---------------------------------------------------------------- C9

LoadIO == {"create_engine", "engine.connect", "read_sql"}

NotRetried == \A op \in LoadIO : Count(op) <= 1

MissingUriFails ==
    (Falsy(db_uri) /\ Called("os.getenv")) =>
        /\ exc = Raise("ValueError", "DB_URI", NoneType)
        /\ engine = "none"
        /\ \A op \in LoadIO \cup {"engine.dispose"} : ~Called(op)

Wrapped(op) ==
    RaisedIn(op) =>
        /\ exc.type = "RuntimeError"
        /\ exc.cause = RaisedType(op)

\* C9 as claimed: a failure of create_engine, connect or read_sql is re-raised
\* as RuntimeError (the DataAccessError of the spec) with the original as its
\* cause, nothing is retried, and a missing DB_URI fails with ValueError (the
\* ConfigurationError) before any engine or I/O.
C9_Original ==
    /\ \A op \in LoadIO : Wrapped(op)
    /\ NotRetried
    /\ MissingUriFails

\* C9, amended: a failure of connect or read_sql is wrapped in a RuntimeError
\* whose cause is the original; a failure of create_engine, which is called
\* before the try, leaves load_data as the exception create_engine raised,
\* with no engine made and no connection tried; nothing is retried; a missing
\* or empty DB_URI fails with ValueError before any engine or I/O.
C9_WrappedInsideTry ==
    /\ Wrapped("engine.connect")
    /\ Wrapped("read_sql")
    /\ RaisedIn("create_engine") =>
          /\ exc = Raise("ArgumentError", "create_engine", NoneType)
          /\ engine = "none"
          /\ ~Called("engine.connect")
    /\ NotRetried
    /\ MissingUriFails

\* The result could not be materialized (no id column): KeyError, wrapped.
C9_Witness ==
    /\ pc = "exit"
    /\ RaisedIn("read_sql")
    /\ exc = Raise("RuntimeError", "load_data", "KeyError")

\* --------------------------------------------------------------- C10

LacksPrice(df) == \A i \in 1..Len(df.columns) : df.columns[i] # "price"

FeatureCount(df) ==
    Cardinality({i \in 1..Len(df.columns) : df.columns[i] # "price"})

NoSplit ==
    /\ ~X_train.set /\ ~X_test.set /\ ~y_train.set /\ ~y_test.set
    /\ ~Called("create_pipeline")

\* C10: preprocess_data on a table without a price column raises ValueError
\* (the SchemaError of the spec) whatever the other columns are, and on a
\* table whose columns other than price are not 10 it raises ValueError too;
\* neither produces a split.
C10_SchemaEnforced ==
    (Called("preprocess_data")
        /\ (LacksPrice(dataset) \/ FeatureCount(dataset) # Len(FeatureNames))) =>
        /\ exc.type = "ValueError"
        /\ exc.site = IF LacksPrice(dataset) THEN "target_not_found" ELSE "set_axis"
        /\ RaisedType("preprocess_data") = "ValueError"
        /\ NoSplit

\* A table with the ten feature columns and no price.
C10_Witness ==
    /\ pc = "uncaught"
    /\ Called("preprocess_data")
    /\ LacksPrice(dataset)
    /\ FeatureCount(dataset) = Len(FeatureNames)

\* ---------------------------------------------------------------- C8

ValidSchema(df) == ~LacksPrice(df) /\ FeatureCount(df) = Len(FeatureNames)

Rows(f) == {f.index[i] : i \in 1..Len(f.index)}

NoRowTwice(f) == Cardinality(Rows(f)) = Len(f.index)

Aligned ==
    /\ X_train.set /\ X_test.set /\ y_train.set /\ y_test.set
    /\ Len(X_train.index) + Len(X_test.index) = Len(dataset.index)
    /\ Len(X_train.index) = Len(y_train.index)
    /\ Len(X_test.index) = Len(y_test.index)
    /\ Rows(X_train) \cap Rows(X_test) = {}
    /\ Rows(X_train) \cup Rows(X_test) = Rows(dataset)
    /\ NoRowTwice(X_train) /\ NoRowTwice(X_test)
    \* row k of X and row k of y are the same table row
    /\ X_train.index = y_train.index
    /\ X_test.index = y_test.index
    \* and their cells are that row's: the price column for y, the others for X
    /\ \A f \in {y_train, y_test} :
          Len(f.origin) = 1 /\ dataset.columns[f.origin[1]] = "price"
    /\ \A f \in {X_train, X_test} :
          /\ f.columns = FeatureNames
          /\ \A k \in 1..Len(f.origin) : dataset.columns[f.origin[k]] # "price"
          /\ \A k \in 1..(Len(f.origin) - 1) : f.origin[k] < f.origin[k + 1]

\* C8 as claimed: for a table of any number of rows, 0 and 1 included, with a
\* valid schema, preprocess_data returns four aligned parts.
C8_Original ==
    (Called("preprocess_data") /\ ValidSchema(dataset)) => Aligned

\* C8, amended: for a table of 2 or more rows with a valid schema
\* preprocess_data returns four aligned parts: the sizes add up, X and y have
\* the same rows in the same order, train and test share no row.  For 0 rows
\* and for 1 row train_test_split raises ValueError (the train set would be
\* empty) and nothing is returned.
C8_AlignedFromTwoRows ==
    (Called("preprocess_data") /\ ValidSchema(dataset)) =>
        IF Len(dataset.index) >= 2
        THEN Aligned
        ELSE /\ NoSplit
             /\ RaisedType("preprocess_data") = "ValueError"
             /\ exc = Raise("ValueError", "train_test_split", NoneType)

\* Four rows, shuffled: three for training, out of table order.
C8_Witness ==
    /\ X_train.set
    /\ X_train.index = <<4, 1, 3>>
    /\ y_test.index = <<2>>

\* ---------------------------------------------------------------- C7

\* The integer nearest to n / 5 (n / 5 is never halfway between two).
Nearest(n) == (2 * n + 5) \div 10

\* C7 as claimed: the test part has the integer nearest to 0.2 * N rows and
\* the train part the others.
C7_Original ==
    (vss.pc = "done" /\ ~vss.raised) =>
        /\ Len(vss.test) = Nearest(vss.n_samples)
        /\ Len(vss.train) = vss.n_samples - Len(vss.test)

\* C7, amended: the test part has ceil(0.2 * N) rows, the least integer not
\* below N / 5, and the train part the other N - ceil(0.2 * N), for every N
\* from 2 up; below 2 rows the split raises.
C7_TestSizeIsCeiling ==
    vss.pc = "done" =>
        /\ vss.raised <=> vss.n_samples < 2
        /\ ~vss.raised =>
              /\ Len(vss.test) = (vss.n_samples + 4) \div 5
              /\ Len(vss.train) = vss.n_samples - Len(vss.test)
              /\ Len(vss.test) >= 1

\* Fifteen rows: 0.2 * 15 is 3 after rounding to a double, and 3 are held out.
C7_Witness ==
    /\ vss.pc = "done"
    /\ vss.n_samples = 15
    /\ Len(vss.test) = 3
    /\ Len(vss.train) = 12

\* ---------------------------------------------------------------- C3

\* The calls whose failure ends a stage before log_model.
FatalOps == LoadIO \cup {"preprocess_data", "fit"}

NothingAfter(i) ==
    /\ \A j \in (i + 1)..Len(trace) :
          trace[j].op \notin StageNames \cup FatalOps \cup {"mlflow.sklearn.log_model"}
    /\ registered = <<>>
    /\ ~Printed("...Done!")
    /\ ~Printed("---Total training time")
    /\ exit_code # "0"

\* C3: the stages run in the order load_data, preprocess_data,
\* create_pipeline, train_model, log_model, each at most once; when load_data,
\* preprocess_data or train_model fails no later stage runs, the model is not
\* registered, the failed call is not made again, and neither "...Done!" nor
\* the training time is printed.
C3_FailFast ==
    /\ IsPrefix(StagesRun, StageOrder)
    /\ \A op \in FatalOps : Count(op) <= 1
    /\ \A i \in 1..Len(trace) :
          (trace[i].op \in FatalOps /\ trace[i].raised # NoneType) => NothingAfter(i)
    /\ (Falsy(db_uri) /\ Called("os.getenv")) => NothingAfter(Index("os.getenv"))

\* Cross-validation failed: the script ended with status 1, log_model not run.
C3_Witness ==
    /\ pc = "exit"
    /\ exit_code = "1"
    /\ RaisedIn("fit")
    /\ StagesRun = SubSeq(StageOrder, 1, 4)
    /\ stderr = <<Raise("RuntimeError", "train_model", NoneType)>>

\* ---------------------------------------------------------------- C4

OpenedAndClosedOnce ==
    /\ Count("start_run") <= 1
    /\ Count("end_run") <= 1
    /\ pc = "exit" => Count("end_run") = Count("start_run")

\* C4 as claimed: the run is opened once before load_data and closed once
\* after log_model, so that every stage executes while the run is open.
C4_Original ==
    /\ OpenedAndClosedOnce
    /\ pc = "exit" => Count("start_run") = 1
    /\ \A i \in 1..Len(trace) : trace[i].op \in StageNames => trace[i].run = "open"

InsideRun ==
    {"train_model", "fit", "log_model", "predict", "infer_signature",
     "mlflow.sklearn.log_model"}

\* C4, amended: the run is opened at most once, after load_data,
\* preprocess_data and create_pipeline have returned and right before
\* train_model, and every run opened is closed once, after log_model or after
\* a failing train_model; train_model and log_model alone execute while the
\* run is open, the three stages before them execute with no run, and an
\* execution in which load_data or preprocess_data fails opens no run.
C4_RunWrapsTrainAndLog ==
    /\ OpenedAndClosedOnce
    /\ \A i \in 1..Len(trace) :
          /\ trace[i].op \in InsideRun => trace[i].run = "open"
          /\ trace[i].op \in StageNames \ InsideRun => trace[i].run = "none"
          /\ trace[i].op = "start_run" => trace[i - 1].op = "create_pipeline"
          /\ trace[i].op = "end_run" => i = Len(trace) /\ trace[i].run = "open"
    /\ pc = "exit" =>
          /\ run = IF Called("create_pipeline") THEN "closed" ELSE "none"
          /\ Called("train_model") <=> Called("start_run")

\* train_model failed inside the run, and the run was closed all the same.
C4_Witness ==
    /\ pc = "exit"
    /\ run = "closed"
    /\ exc.site = "train_model"
    /\ Count("start_run") = 1 /\ Count("end_run") = 1

\* ---------------------------------------------------------------- C5

ArgumentsAsSupplied(r) ==
    /\ r.call.sk_model = model
    /\ r.call.artifact_path = "housing-prices-estimator"
    /\ r.call.registered_model_name = "housing-prices-estimator-LR"
    /\ r.run = "open"
    /\ Called("fit") /\ ~RaisedIn("fit")
    /\ Index("fit") < Index("mlflow.sklearn.log_model")

\* C5 as claimed: when loading, preprocessing and training succeeded,
\* mlflow.sklearn.log_model is invoked exactly once, in the open run, with
\* the fitted model and the artifact path and name the script supplies.
C5_Original ==
    (Called("log_model") /\ model.set) =>
        /\ Len(registered) = 1
        /\ ArgumentsAsSupplied(registered[1])

\* C5, amended: when loading, preprocessing and training succeeded,
\* mlflow.sklearn.log_model is invoked at most once: exactly once, in the open
\* run, after training, with the fitted model and the supplied artifact path
\* and name, when model.predict and infer_signature returned; not at all when
\* one of the two raised.  It is never invoked before log_model is called.
C5_RegisteredAtMostOnce ==
    /\ ~Called("log_model") => registered = <<>>
    /\ (Called("log_model") /\ model.set) =>
          /\ Len(registered) =
                (IF RaisedIn("predict") \/ RaisedIn("infer_signature") THEN 0 ELSE 1)
          /\ \A i \in 1..Len(registered) : ArgumentsAsSupplied(registered[i])
          /\ Count("mlflow.sklearn.log_model") = Len(registered)

\* The model was registered and the script finished.
C5_Witness ==
    /\ pc = "exit"
    /\ Len(registered) = 1
    /\ registered[1].raised = NoneType
    /\ registered[1].call.sk_model.best_alpha = 975

\* ---------------------------------------------------------------- C6

LogFailed == \E i \in 1..Len(LogSteps) : RaisedIn(LogSteps[i])

Reported(lines) ==
    /\ exit_code = "0"
    /\ out = <<"Training model...">> \o lines \o <<"...Done!", "---Total training time">>

\* C6: when a call inside log_model raises, the script still finishes: one
\* warning is printed, no exception is left pending, every later step can be
\* taken, and the script ends with status 0 having printed "...Done!" and the
\* training time after the warning, the same lines as when logging succeeds.
C6_LoggingFailureStillReports ==
    Called("log_model") =>
        /\ ~Pending
        /\ LogFailed => \E w \in Warnings : out = <<"Training model...", w>>
                                          \/ (pc = "exit" /\ Reported(<<w>>))
        /\ ~LogFailed => out = <<"Training model...">>
                         \/ (pc = "exit" /\ Reported(<<>>))
        /\ pc # "exit" => ENABLED Next

\* The tracking service refused the model; the script ended with status 0.
C6_Witness ==
    /\ pc = "exit"
    /\ exit_code = "0"
    /\ Len(registered) = 1
    /\ registered[1].raised = "MlflowException"
    /\ out = <<"Training model...", "Model logging failed", "...Done!",
               "---Total training time">>

\* ---------------------------------------------------------------- C2

\* C2: called with any model and a non-empty artifact_path and
\* registered_model_name, log_model returns normally whatever raises inside
\* it (predict, infer_signature or the tracking client): no exception leaves
\* it, and exactly when something raised one warning is printed.
C2_LoggingNeverAborts ==
    (Called("log_model") /\ ~Falsy(artifact_path) /\ ~Falsy(registered_model_name)) =>
        /\ ~Pending
        /\ pc = "run_exit"
        /\ IF LogFailed
           THEN Len(out) = 1 /\ out[1] \in Warnings
           ELSE out = <<>> /\ Len(registered) = 1

\* The tracking client could not be reached: a warning, and a normal return.
C2_Witness ==
    /\ pc = "run_exit"
    /\ artifact_path = "models/lasso"
    /\ Len(registered) = 1
    /\ registered[1].raised = "ConnectionError"
    /\ out = <<"Unexpected error during model logging">>
    /\ exc = NoExc

====
